---------------------------- MODULE Spec2Model ----------------------------
(***************************************************************************)
(* A model of class vaspwfc (src/vaspwfc.py): the WAVECAR reader, its      *)
(* record locator, the G-vector generator, the reciprocal-grid placement   *)
(* of wfc_r and the transition dipole moment.                              *)
(*                                                                         *)
(* Numbers.  Header and table fields are stored as 8-byte floats and cast  *)
(* to int by the reader; a field the reader casts is kept here as twice    *)
(* its value (name ending in 2) so that a fractional field and the cast's  *)
(* truncation are both represented.  Complex numbers are pairs <<re, im>>  *)
(* of integers.  Lengths and energies use units in which                   *)
(* HSQDTM * TPI^2 = 1: a cell is orthorhombic with edge lengths acell[i],  *)
(* the k-vector is kept in halves (kvec2 = 2 k) and the cutoff as          *)
(* encut16 = 16 * ENCUT, so that                                           *)
(*     KENERGY(G) < ENCUT  <=>  SUM_i (2 G_i + kvec2_i)^2 * 4/acell_i^2    *)
(*                                                          < encut16.     *)
(***************************************************************************)
EXTENDS Integers, Sequences, FiniteSets, TLC

VARIABLES
    file,   \* the WAVECAR on disk (never written)
    wfc,    \* self._wfc: "unopened", "open" or "closed"
    pos,    \* the cursor of self._wfc, a byte offset
    obj,    \* the attributes __init__ has assigned so far
    ctor,   \* "new", "ok" or the message of the exception __init__ raised
    ret     \* the outcome of the last call, until the caller drops it

vars == <<file, wfc, pos, obj, ctor, ret>>

-----------------------------------------------------------------------------
(* Bounds of the model. *)

MaxKpts == 2
MaxBands == 2
MaxCut == 1

-----------------------------------------------------------------------------
(* Complex arithmetic on pairs of integers. *)

CAdd(x, y) == <<x[1] + y[1], x[2] + y[2]>>
CSub(x, y) == <<x[1] - y[1], x[2] - y[2]>>
CMul(x, y) == <<x[1] * y[1] - x[2] * y[2], x[1] * y[2] + x[2] * y[1]>>
CScale(x, n) == <<x[1] * n, x[2] * n>>
CZero == <<0, 0>>
COne == <<1, 0>>
CI == <<0, 1>>

\* ndarray.conjugate(), lines 263, 341, 344
conjugate(x) == <<x[1], -x[2]>>

RECURSIVE CSum(_)
\* np.sum over a one-dimensional complex array, line 342
CSum(s) == IF s = <<>> THEN CZero ELSE CAdd(Head(s), CSum(Tail(s)))

\* np.linalg.norm(cg)**2, line 286
NormSq(cg) == LET sq == [i \in 1..Len(cg) |-> <<cg[i][1] * cg[i][1] + cg[i][2] * cg[i][2], 0>>]
              IN  CSum(sq)[1]

\* the cast of a stored float to int (np.array(..., dtype=int), int(dump[0])):
\* truncation toward zero of a value kept as twice itself
ToInt(x2) == IF x2 >= 0 THEN x2 \div 2 ELSE -((-x2) \div 2)

RECURSIVE ISqrtFrom(_, _)
ISqrtFrom(n, r) == IF (r + 1) * (r + 1) > n THEN r ELSE ISqrtFrom(n, r + 1)
\* floor of the square root
ISqrt(n) == ISqrtFrom(n, 0)

-----------------------------------------------------------------------------
(* The file: the layout of the class docstring, lines 18-38. *)

FloatSize == 8

\* the record that starts at byte offset off of file f
RecordAt(f, off) ==
    LET recl == ToInt(f.recl2)
        nk == ToInt(f.nkpts2)
        nb == ToInt(f.nbands2)
        r == off \div recl
        q == r - 2
        blk == q \div (nb + 1)
        w == q % (nb + 1)
    IN  IF off < 0 \/ (off % recl) # 0 THEN [kind |-> "garbage"]
        ELSE IF r = 0 THEN [kind |-> "rec1"]
        ELSE IF r = 1 THEN [kind |-> "rec2"]
        ELSE IF ~f.complete \/ blk >= ToInt(f.nspin2) * nk THEN [kind |-> "eof"]
        ELSE IF w = 0
             THEN [kind |-> "table", ispin |-> (blk \div nk) + 1, ikpt |-> (blk % nk) + 1]
             ELSE [kind |-> "coeff", ispin |-> (blk \div nk) + 1, ikpt |-> (blk % nk) + 1,
                   iband |-> w]

-----------------------------------------------------------------------------
(* readWFHeader and setWFPrec. *)

\* mutant of setWFPrec: the VASP5 tags decoded like the supported ones
setWFPrecLoose(rtag) ==
    IF rtag = 45200 THEN [status |-> "ok", prec |-> "complex64"]
    ELSE IF rtag = 45210 THEN [status |-> "ok", prec |-> "complex128"]
    ELSE IF rtag = 53300 THEN [status |-> "ok", prec |-> "complex64"]
    ELSE IF rtag = 53310 THEN [status |-> "ok", prec |-> "complex128"]
    ELSE [status |-> "Invalid TAG values"]

\* setWFPrec, lines 97-107: the dtype selected, or the error raised
setWFPrec(rtag) ==
    IF rtag = 45200 THEN [status |-> "ok", prec |-> "complex64"]
    ELSE IF rtag = 45210 THEN [status |-> "ok", prec |-> "complex128"]
    ELSE IF rtag = 53300 THEN [status |-> "VASP5 WAVECAR format, not implemented yet"]
    ELSE IF rtag = 53310
         THEN [status |-> "VASP5 WAVECAR format with double precision coefficients, not implemented yet"]
    ELSE [status |-> "Invalid TAG values"]

\* bytes per coefficient of the dtype self._WFPrec
PrecSize(prec) == IF prec = "complex64" THEN 8 ELSE 16

\* CUTOF, lines 85-88, of one axis: floor(sqrt(ENCUT) * Anorm) in the model's units
CUTOF(encut16, a) == ISqrt((encut16 * a * a) \div 16)

\* self._ngrid, line 89
MinGrid(encut16, acell) == [i \in 1..3 |-> 2 * CUTOF(encut16, acell[i]) + 1]

-----------------------------------------------------------------------------
(* whereRec, checkIndex and readWFBand. *)

\* checkIndex, lines 305-307: "ok" or the message of the assertion that fails
checkIndex(o, ispin, ikpt, iband) ==
    IF ~(1 <= ispin /\ ispin <= o.nspin) THEN "Invalid spin index!"
    ELSE IF ~(1 <= ikpt /\ ikpt <= o.nkpts) THEN "Invalid kpoint index!"
    ELSE IF ~(1 <= iband /\ iband <= o.nbands) THEN "Invalid band index!"
    ELSE "ok"

IndexErrors == {"Invalid spin index!", "Invalid kpoint index!", "Invalid band index!"}

\* mutant of whereRec: blocks of nbands records, the table record forgotten
whereRecNoTable(o, ispin, ikpt, iband) ==
    2 + (ispin - 1) * o.nkpts * o.nbands + (ikpt - 1) * o.nbands + iband

\* the value of rec, lines 296-298
whereRec(o, ispin, ikpt, iband) ==
    2 + (ispin - 1) * o.nkpts * (o.nbands + 1) + (ikpt - 1) * (o.nbands + 1) + iband

\* the offset readWFBand seeks for block (ispin, ikpt), lines 121-122
TableOffset(o, ispin, ikpt) == (whereRec(o, ispin, ikpt, 1) - 1) * o.recl

\* the offset readBandCoeff seeks, lines 278-279
CoeffOffset(o, ispin, ikpt, iband) == whereRec(o, ispin, ikpt, iband) * o.recl

\* the 4 + 3 * nbands floats np.fromfile returns at a table's offset, line 123:
\* the plane-wave count, the k-vector and the energies of the block found there
\* (bytes of any other record decode to numbers that belong to no block)
ReadTable(f, o, off) ==
    LET rec == RecordAt(f, off)
    IN  IF rec.kind = "table"
        THEN [nplw |-> ToInt(f.nplws2[rec.ikpt]), kvec |-> f.kvecs2[rec.ikpt],
              bands |-> f.bands[rec.ispin][rec.ikpt]]
        ELSE [nplw |-> 0, kvec |-> <<0, 0, 0>>, bands |-> [b \in 1..o.nbands |-> 0]]

\* readWFHeader, lines 67-89, on an open file: the attributes it sets, the
\* cursor it leaves and the error it raises
readWFHeader(f) ==
    LET recl == ToInt(f.recl2)
        nspin == ToInt(f.nspin2)
        rtag == ToInt(f.rtag2)
        prec == setWFPrec(rtag)
        rec1 == [recl |-> recl, nspin |-> nspin, rtag |-> rtag]
    IN  IF prec.status # "ok"
        THEN [status |-> prec.status, pos |-> 3 * FloatSize, obj |-> rec1]
        ELSE [status |-> "ok", pos |-> recl + 12 * FloatSize,
              obj |-> [recl |-> recl, nspin |-> nspin, rtag |-> rtag,
                       WFPrec |-> prec.prec,
                       nkpts |-> ToInt(f.nkpts2), nbands |-> ToInt(f.nbands2),
                       encut16 |-> f.encut16, Acell |-> f.acell,
                       ngrid |-> MinGrid(f.encut16, f.acell)]]

\* readWFBand, lines 114-137, after a header that was read
readWFBand(f, h) ==
    LET nb == h.nbands
        tab(s, k) == ReadTable(f, h, TableOffset(h, s, k))
        zeros == [nplws |-> [k \in 1..h.nkpts |-> 0],
                  kvecs |-> [k \in 1..h.nkpts |-> <<0, 0, 0>>],
                  bands |-> [s \in 1..h.nspin |-> [k \in 1..h.nkpts |->
                                [b \in 1..nb |-> 0]]]]
        full == [nplws |-> [k \in 1..h.nkpts |-> tab(1, k).nplw],
                 kvecs |-> [k \in 1..h.nkpts |-> tab(1, k).kvec],
                 bands |-> [s \in 1..h.nspin |-> [k \in 1..h.nkpts |-> tab(s, k).bands]],
                 kpath |-> IF h.nkpts > 1 THEN "cumsum" ELSE "None"]
    IN  IF RecordAt(f, TableOffset(h, 1, 1)).kind = "eof"
        THEN [status |-> "IndexError", pos |-> TableOffset(h, 1, 1), obj |-> zeros]
        ELSE [status |-> "ok",
              pos |-> TableOffset(h, h.nspin, h.nkpts) + (4 + 3 * nb) * FloatSize,
              obj |-> full]

\* __init__, lines 46-55: the file is opened and never closed, on any path
init(f) ==
    LET h == readWFHeader(f)
        b == readWFBand(f, h.obj)
    IN  IF ~f.exists
        THEN [ctor |-> "Failed to open", wfc |-> "unopened", pos |-> 0,
              obj |-> [a \in {} |-> 0]]
        ELSE IF h.status # "ok"
        THEN [ctor |-> h.status, wfc |-> "open", pos |-> h.pos, obj |-> h.obj]
        ELSE IF b.status # "ok"
        THEN [ctor |-> b.status, wfc |-> "open", pos |-> b.pos, obj |-> h.obj @@ b.obj]
        ELSE [ctor |-> "ok", wfc |-> "open", pos |-> b.pos, obj |-> h.obj @@ b.obj]

-----------------------------------------------------------------------------
(* gvectors. *)

\* the centered frequency of index i on an axis of n points, lines 149-154
\* (Python 2: / on integers is floor division)
Freq(n, i) == IF i < n \div 2 + 1 THEN i ELSE i - n

\* mutant of GammaHalf: fx > 0 for fx >= 0 in the last alternative
GammaHalfStrict(g) ==
    \/ g[3] > 0
    \/ (g[3] = 0 /\ g[2] > 0)
    \/ (g[3] = 0 /\ g[2] = 0 /\ g[1] > 0)

\* the half-space filter of the gamma version, lines 162-166
GammaHalf(g) ==
    \/ g[3] > 0
    \/ (g[3] = 0 /\ g[2] > 0)
    \/ (g[3] = 0 /\ g[2] = 0 /\ g[1] >= 0)

\* kgrid, lines 155-171: the candidates, axis 1 fastest and axis 3 slowest
kgrid(ngrid, gamma) ==
    LET all == [t \in 1..(ngrid[1] * ngrid[2] * ngrid[3]) |->
                  <<Freq(ngrid[1], (t - 1) % ngrid[1]),
                    Freq(ngrid[2], ((t - 1) \div ngrid[1]) % ngrid[2]),
                    Freq(ngrid[3], (t - 1) \div (ngrid[1] * ngrid[2]))>>]
    IN  IF gamma THEN SelectSeq(all, GammaHalf) ELSE all

\* the square of the three edge lengths' product: the common denominator of
\* the energies below
CellDen(acell) == acell[1] * acell[1] * acell[2] * acell[2] * acell[3] * acell[3]

\* KENERGY, lines 175-177, of G + k, times 16 * CellDen
KENERGY(acell, g, kvec2) ==
    LET term(i) == (2 * g[i] + kvec2[i]) * (2 * g[i] + kvec2[i])
                     * 4 * (CellDen(acell) \div (acell[i] * acell[i]))
    IN  term(1) + term(2) + term(3)

\* the test of line 179: KENERGY < self._encut
BelowCut(o, g, kvec2) == KENERGY(o.Acell, g, kvec2) < o.encut16 * CellDen(o.Acell)

\* Gvec, line 179
Gvec(o, ikpt, gamma) ==
    SelectSeq(kgrid(o.ngrid, gamma), LAMBDA g : BelowCut(o, g, o.kvecs[ikpt]))

\* mutant of gvectors: the assertion of line 181 dropped
gvectorsUnchecked(o, ikpt, gamma) ==
    IF ~(1 <= ikpt /\ ikpt <= o.nkpts) THEN [status |-> "Invalid kpoint index!"]
    ELSE [status |-> "ok", value |-> Gvec(o, ikpt, gamma)]

\* gvectors, lines 144-183
gvectors(o, ikpt, gamma) ==
    IF ~(1 <= ikpt /\ ikpt <= o.nkpts) THEN [status |-> "Invalid kpoint index!"]
    ELSE IF Len(Gvec(o, ikpt, gamma)) # o.nplws[ikpt]
         THEN [status |-> "No. of planewaves not consistent!"]
    ELSE [status |-> "ok", value |-> Gvec(o, ikpt, gamma)]

-----------------------------------------------------------------------------
(* readBandCoeff. *)

\* the nplw coefficients np.fromfile returns at offset off, line 282 (bytes of
\* any record that is no coefficient record decode to no state's coefficients)
ReadCoeff(f, off, nplw) ==
    LET rec == RecordAt(f, off)
    IN  IF rec.kind = "coeff"
        THEN SubSeq(f.cg[rec.ispin][rec.ikpt][rec.iband], 1, nplw)
        ELSE [i \in 1..nplw |-> CZero]

\* mutant of readBandCoeff: the seek of line 279 made before checkIndex
readBandCoeffSeekFirst(f, o, ispin, ikpt, iband, norm) ==
    LET e == checkIndex(o, ispin, ikpt, iband)
        off == CoeffOffset(o, ispin, ikpt, iband)
        cg == ReadCoeff(f, off, o.nplws[ikpt])
    IN  IF e # "ok" THEN [status |-> e, pos |-> off]
        ELSE [status |-> "ok", pos |-> off + Len(cg) * PrecSize(o.WFPrec),
              value |-> [cg |-> cg, den2 |-> IF norm THEN NormSq(cg) ELSE 1]]

\* readBandCoeff, lines 276-287.  cg / norm(cg) is kept as the pair
\* (cg, den2 = norm(cg)^2): the array returned is cg / sqrt(den2).
readBandCoeff(f, o, ispin, ikpt, iband, norm) ==
    LET e == checkIndex(o, ispin, ikpt, iband)
        off == CoeffOffset(o, ispin, ikpt, iband)
        nplw == o.nplws[ikpt]
        cg == ReadCoeff(f, off, nplw)
    IN  IF e # "ok" THEN [status |-> e]
        ELSE [status |-> "ok", pos |-> off + Len(cg) * PrecSize(o.WFPrec),
              value |-> [cg |-> cg, den2 |-> IF norm THEN NormSq(cg) ELSE 1]]

-----------------------------------------------------------------------------
(* wfc_r. *)

\* mutant of BufShape: the last axis of the gamma version one entry short
BufShapeShort(ngrid, gamma) ==
    IF gamma THEN <<ngrid[1], ngrid[2], ngrid[3] \div 2>> ELSE ngrid

\* the shape of phi_k, lines 247-250
BufShape(ngrid, gamma) ==
    IF gamma THEN <<ngrid[1], ngrid[2], ngrid[3] \div 2 + 1>> ELSE ngrid

\* one row of gvec %= ngrid, line 252 (numpy's % takes the divisor's sign)
Reduce(g, ngrid) == <<g[1] % ngrid[1], g[2] % ngrid[2], g[3] % ngrid[3]>>

\* an index triple the buffer accepts (a negative index counts from the end)
InBuf(c, shape) == \A i \in 1..3 : -shape[i] <= c[i] /\ c[i] < shape[i]

Cells(shape) == (0..(shape[1] - 1)) \X (0..(shape[2] - 1)) \X (0..(shape[3] - 1))

\* phi_k after the assignment of line 253: zeros, and at each cell named by
\* cells the coefficient of the last row naming it
Place(shape, cells, cg) ==
    [c \in Cells(shape) |->
        LET hits == {i \in 1..Len(cells) : cells[i] = c}
        IN  IF hits = {} THEN CZero
            ELSE cg[CHOOSE i \in hits : \A j \in hits : j <= i]]

RECURSIVE FillFrom(_, _, _)
\* the loop of lines 257-263 from its step t on (t = ii * ngrid[2] + jj,
\* ii and jj counted from 0), with fy computed from ii as line 260 does
FillFrom(phi, ngrid, t) ==
    IF t >= ngrid[1] * ngrid[2] THEN phi
    ELSE LET ii == t \div ngrid[2]
             jj == t % ngrid[2]
             fx == Freq(ngrid[1], ii)
             fy == Freq(ngrid[2], ii)
         IN  IF (fy > 0) \/ (fy = 0 /\ fx >= 0)
             THEN FillFrom(phi, ngrid, t + 1)
             ELSE FillFrom([phi EXCEPT ![<<ii, jj, 0>>] =
                               conjugate(phi[<<(-ii) % ngrid[1], (-jj) % ngrid[2], 0>>])],
                           ngrid, t + 1)

\* np.alltrue(ngrid >= self._ngrid), line 241
GridAccepted(o, ngrid) == \A i \in 1..3 : ngrid[i] >= o.ngrid[i]

\* wfc_r, lines 234-269, with gvec=None; ngridArg is <<>> for ngrid=None.
\* The value kept is phi_k as the loop leaves it (filled), before the scaling
\* of lines 264-265 and the inverse transform, and phi_k as line 253 left it
\* (placed).  Line 253 raises ValueError when the index arrays and the values
\* differ in length and IndexError when an index is outside the buffer.
wfc_r(f, o, ispin, ikpt, iband, ngridArg, norm, gamma) ==
    LET e == checkIndex(o, ispin, ikpt, iband)
        ngrid == IF Len(ngridArg) = 0 THEN o.ngrid ELSE ngridArg
        gv == gvectors(o, ikpt, gamma)
        shape == BufShape(ngrid, gamma)
        cells == [i \in 1..Len(gv.value) |-> Reduce(gv.value[i], ngrid)]
        rd == readBandCoeff(f, o, ispin, ikpt, iband, norm)
        placed == Place(shape, cells, rd.value.cg)
    IN  IF e # "ok" THEN [status |-> e]
        ELSE IF ~GridAccepted(o, ngrid) THEN [status |-> "Minium FT grid size"]
        ELSE IF gv.status # "ok" THEN [status |-> gv.status]
        ELSE IF Len(cells) # Len(rd.value.cg)
             THEN [status |-> "ValueError", pos |-> rd.pos]
        ELSE IF \E i \in 1..Len(cells) : ~InBuf(cells[i], shape)
             THEN [status |-> "IndexError", pos |-> rd.pos]
        ELSE [status |-> "ok", pos |-> rd.pos,
              value |-> [ngrid |-> ngrid, shape |-> shape, den2 |-> rd.value.den2,
                         placed |-> placed,
                         filled |-> IF gamma THEN FillFrom(placed, ngrid, 0) ELSE placed]]

-----------------------------------------------------------------------------
(* TransitionDipoleMoment. *)

\* one row of np.dot(gvectors, self._Bcell * TPI), line 333, in units of
\* TPI / (acell[1] * acell[2] * acell[3])
Gcart(acell, g) ==
    <<g[1] * acell[2] * acell[3], g[2] * acell[1] * acell[3], g[3] * acell[1] * acell[2]>>

\* np.sum(tmp[:, np.newaxis] * gvec, axis=0), lines 345-348
VecSum(tmp, gc) ==
    [a \in 1..3 |-> CSum([i \in 1..Len(tmp) |-> CScale(tmp[i], gc[i][a])])]

\* mutant of OverlapTerms: the conjugate taken of phi_j
OverlapTermsSwapped(phi_i, phi_j) ==
    [n \in 1..Len(phi_i) |-> CMul(phi_i[n], conjugate(phi_j[n]))]

\* tmp1, line 341
OverlapTerms(phi_i, phi_j) ==
    [n \in 1..Len(phi_i) |-> CMul(conjugate(phi_i[n]), phi_j[n])]

\* TransitionDipoleMoment, lines 326-352: the outcomes the call can have.
\* With den2 = <<norm(phi_i)^2, norm(phi_j)^2>> (ones unless norm is set) and
\* sq = sqrt(den2[1] * den2[2]): ovlap is num / sq; tdm is, per axis,
\* num / (den * sq) times
\* the positive constant 2 * RYTOEV * AUTOA * AUTDEBYE * TPI / (a1 a2 a3).
\* With dE = 0 line 350 divides 1j by a numpy zero: the interpreter's complex
\* division raises ZeroDivisionError, numpy's yields inf and nan; which of the
\* two runs depends on the build, so both outcomes are kept.
TransitionDipoleMoment(f, o, ks_i, ks_j, norm, gamma) ==
    LET ei == checkIndex(o, ks_i[1], ks_i[2], ks_i[3])
        ej == checkIndex(o, ks_j[1], ks_j[2], ks_j[3])
        gv == gvectors(o, ks_i[2], gamma)
        gc == [n \in 1..Len(gv.value) |-> Gcart(o.Acell, gv.value[n])]
        ri == readBandCoeff(f, o, ks_i[1], ks_i[2], ks_i[3], norm)
        rj == readBandCoeff(f, o, ks_j[1], ks_j[2], ks_j[3], norm)
        dE == o.bands[ks_j[1]][ks_j[2]][ks_j[3]] - o.bands[ks_i[1]][ks_i[2]][ks_i[3]]
        tmp1 == OverlapTerms(ri.value.cg, rj.value.cg)
        tmp2 == [n \in 1..Len(tmp1) |-> CMul(ri.value.cg[n], conjugate(rj.value.cg[n]))]
        s1 == VecSum(tmp1, gc)
        s2 == VecSum(tmp2, gc)
        sum == IF gamma THEN [a \in 1..3 |-> CSub(s1[a], s2[a])] ELSE s1
        den2 == <<ri.value.den2, rj.value.den2>>
        val == [dE |-> dE,
                ovlap |-> [num |-> CSum(tmp1), den2 |-> den2],
                tdm |-> [num |-> [a \in 1..3 |-> CMul(CI, sum[a])],
                         den |-> IF gamma THEN 2 * dE ELSE dE, den2 |-> den2]]
    IN  IF ks_i[2] # ks_j[2] THEN {[status |-> "k-point of the two states differ!"]}
        ELSE IF ei # "ok" THEN {[status |-> ei]}
        ELSE IF ej # "ok" THEN {[status |-> ej]}
        ELSE IF gv.status # "ok" THEN {[status |-> gv.status]}
        ELSE IF dE = 0
             THEN {[status |-> "ZeroDivisionError", pos |-> rj.pos],
                   [status |-> "ok", pos |-> rj.pos, value |-> val]}
        ELSE {[status |-> "ok", pos |-> rj.pos, value |-> val]}

-----------------------------------------------------------------------------
(* The files the specifications start from. *)

\* the coefficients of a band: plane wave n holds unit * (n + (n - 1) i)
BandCoeffs(unit, nplw) == [n \in 1..nplw |-> CMul(unit, <<n, n - 1>>)]

\* a file: its header counts <<nspin, nkpts, nbands>>, its plane-wave data
\* pw = <<encut16, acell, kvec2, nplw>> (one k-vector and count for every
\* k-point), the band energies en[<<s, k, b>>] and the bands' units
MkFile(exists, complete, rtag2, recl, counts, pw, en, unit) ==
    [exists |-> exists, complete |-> complete,
     recl2 |-> 2 * recl, nspin2 |-> 2 * counts[1], rtag2 |-> rtag2,
     nkpts2 |-> 2 * counts[2], nbands2 |-> 2 * counts[3],
     encut16 |-> pw[1], acell |-> pw[2],
     nplws2 |-> [k \in 1..counts[2] |-> 2 * pw[4]],
     kvecs2 |-> [k \in 1..counts[2] |-> pw[3]],
     bands |-> [s \in 1..counts[1] |-> [k \in 1..counts[2] |->
                  [b \in 1..counts[3] |-> en[<<s, k, b>>]]]],
     cg |-> [s \in 1..counts[1] |-> [k \in 1..counts[2] |->
               [b \in 1..counts[3] |-> BandCoeffs(unit[b], pw[4])]]]]

\* RTAG as stored, doubled: 45200, 45210, 45210.5, 53300, 53310, 45201, 0
RawTags == {90400, 90420, 90421, 106600, 106620, 90402, 0}

RecLens == {128, 256}

\* files that differ in their header: one plane wave per state (a cutoff
\* below the first reciprocal-lattice vector), band energies all distinct
LayoutFiles ==
    {MkFile(e, c, t, r, <<ns, nk, nb>>, <<8, <<1, 1, 1>>, <<0, 0, 0>>, 1>>,
            [v \in (1..ns) \X (1..nk) \X (1..nb) |-> 10 * v[1] + 3 * v[2] + v[3]],
            [b \in 1..nb |-> IF b % 2 = 1 THEN COne ELSE CI]) :
        e \in BOOLEAN, c \in BOOLEAN, t \in RawTags, r \in RecLens,
        ns \in 1..2, nk \in 1..MaxKpts, nb \in 1..MaxBands}

\* the plane waves a writer counts for cutoff, cell and k-vector: all G in a
\* box one wider than the largest minimum grid
WriterCount(encut16, acell, kvec2, half) ==
    LET box == (-(MaxCut + 1))..(MaxCut + 1)
    IN  Cardinality({g \in box \X box \X box :
                        /\ KENERGY(acell, g, kvec2) < encut16 * CellDen(acell)
                        /\ half => GammaHalf(g)})

Cutoffs == {8, 16, 20}
Edges == {1, 2}
KVecs == {<<0, 0, 0>>, <<1, 0, 0>>}
BandEnergies == {<<1, 1>>, <<1, 3>>}

\* files that differ in cutoff, cell, k-vector, plane-wave count and band
\* energies: one spin, one k-point, two bands with coefficients n + (n-1)i
\* and i * (n + (n-1)i)
PlaneWaveFilesOf(ec, ac, kv) ==
    {MkFile(TRUE, TRUE, 90420, 256, <<1, 1, 2>>, <<ec, ac, kv, n>>,
            [v \in {1} \X {1} \X {1, 2} |-> en[v[3]]],
            <<COne, CI>>) :
        en \in BandEnergies,
        n \in {WriterCount(ec, ac, kv, FALSE), WriterCount(ec, ac, kv, TRUE),
               WriterCount(ec, ac, kv, FALSE) + 1}}

PlaneWaveFiles ==
    UNION {IF \A i \in 1..3 : CUTOF(ec, ac[i]) <= MaxCut
           THEN PlaneWaveFilesOf(ec, ac, kv) ELSE {} :
              ec \in Cutoffs, ac \in Edges \X Edges \X Edges, kv \in KVecs}

-----------------------------------------------------------------------------
(* The actions. *)

NoAttrs == [a \in {} |-> 0]
NoRet == [op |-> "none"]

InitOn(files) ==
    /\ file \in files
    /\ wfc = "unopened"
    /\ pos = 0
    /\ obj = NoAttrs
    /\ ctor = "new"
    /\ ret = NoRet

\* vaspwfc(fnm): __init__ from open to the return of readWFBand
Construct ==
    /\ ctor = "new"
    /\ LET r == init(file)
       IN  /\ ctor' = r.ctor
           /\ wfc' = r.wfc
           /\ pos' = r.pos
           /\ obj' = r.obj
    /\ UNCHANGED <<file, ret>>

\* a method called on the constructed object returns r
Returns(op, args, r) ==
    /\ ctor = "ok"
    /\ ret.op = "none"
    /\ ret' = [op |-> op, args |-> args, status |-> r.status,
               value |-> IF "value" \in DOMAIN r THEN r.value ELSE <<>>]
    /\ pos' = IF "pos" \in DOMAIN r THEN r.pos ELSE pos
    /\ UNCHANGED <<file, wfc, obj, ctor>>

\* the caller drops the value (or handles the exception) of its last call;
\* no method reads what an earlier call returned
Discard ==
    /\ ret.op # "none"
    /\ ret' = NoRet
    /\ UNCHANGED <<file, wfc, pos, obj, ctor>>

\* whereRec(ispin, ikpt, iband), lines 294-299
CallWhereRec(ispin, ikpt, iband) ==
    LET e == checkIndex(obj, ispin, ikpt, iband)
    IN  Returns("whereRec", <<ispin, ikpt, iband>>,
                IF e # "ok" THEN [status |-> e]
                ELSE [status |-> "ok", value |-> whereRec(obj, ispin, ikpt, iband)])

CallReadBandCoeff(ispin, ikpt, iband, norm) ==
    Returns("readBandCoeff", <<ispin, ikpt, iband, norm>>,
            readBandCoeff(file, obj, ispin, ikpt, iband, norm))

CallGvectors(ikpt, gamma) ==
    Returns("gvectors", <<ikpt, gamma>>, gvectors(obj, ikpt, gamma))

CallWfcR(ispin, ikpt, iband, ngridArg, norm, gamma) ==
    Returns("wfc_r", <<ispin, ikpt, iband, ngridArg, norm, gamma>>,
            wfc_r(file, obj, ispin, ikpt, iband, ngridArg, norm, gamma))

CallTDM(ks_i, ks_j, norm, gamma) ==
    \E r \in TransitionDipoleMoment(file, obj, ks_i, ks_j, norm, gamma) :
        Returns("TransitionDipoleMoment", <<ks_i, ks_j, norm, gamma>>, r)

-----------------------------------------------------------------------------
(* Spec: every header, every index from one below to one above its range. *)

SpinArgs == 0..(obj.nspin + 1)
KptArgs == 0..(obj.nkpts + 1)
BandArgs == 0..(obj.nbands + 1)
StateArgs == SpinArgs \X KptArgs \X BandArgs

AnyWhereRec ==
    ctor = "ok" /\ ret.op = "none" /\ \E ks \in StateArgs : CallWhereRec(ks[1], ks[2], ks[3])

AnyReadBandCoeff ==
    ctor = "ok" /\ ret.op = "none" /\ \E ks \in StateArgs : CallReadBandCoeff(ks[1], ks[2], ks[3], FALSE)

AnyGvectors ==
    ctor = "ok" /\ ret.op = "none" /\ \E k \in KptArgs, gamma \in BOOLEAN : CallGvectors(k, gamma)

AnyWfcR ==
    ctor = "ok" /\ ret.op = "none" /\ \E ks \in StateArgs :
                      CallWfcR(ks[1], ks[2], ks[3], <<>>, FALSE, FALSE)

\* pairs of states that differ in at most one index
StatePairs ==
    {p \in StateArgs \X StateArgs :
        Cardinality({i \in 1..3 : p[1][i] # p[2][i]}) <= 1}

AnyTDM ==
    ctor = "ok" /\ ret.op = "none" /\ \E p \in StatePairs :
                      CallTDM(p[1], p[2], FALSE, FALSE)

Init == InitOn(LayoutFiles)

Next ==
    \/ Construct
    \/ Discard
    \/ AnyWhereRec
    \/ AnyReadBandCoeff
    \/ AnyGvectors
    \/ AnyWfcR
    \/ AnyTDM

Spec == Init /\ [][Next]_vars

-----------------------------------------------------------------------------
(* SpecPW: every cutoff, cell and plane-wave count, valid state indices,    *)
(* every flag, every target grid of GridArgs.                                *)

ValidStates == (1..obj.nspin) \X (1..obj.nkpts) \X (1..obj.nbands)

\* ngrid=None and the grids from one point below the minimum grid to two
\* points above it, per axis
GridPads == {-1, 0, 1, 2}
GridArgs ==
    {<<>>} \cup {<<obj.ngrid[1] + p[1], obj.ngrid[2] + p[2], obj.ngrid[3] + p[3]>> :
                    p \in GridPads \X GridPads \X GridPads}

PWWhereRec ==
    ctor = "ok" /\ ret.op = "none" /\ \E ks \in ValidStates : CallWhereRec(ks[1], ks[2], ks[3])

PWReadBandCoeff ==
    ctor = "ok" /\ ret.op = "none" /\ \E ks \in ValidStates, norm \in BOOLEAN :
                      CallReadBandCoeff(ks[1], ks[2], ks[3], norm)

PWGvectors ==
    ctor = "ok" /\ ret.op = "none" /\ \E k \in 1..obj.nkpts, gamma \in BOOLEAN : CallGvectors(k, gamma)

\* norm is varied on the default grid only: it scales the coefficients read
\* and enters neither the grid nor the placement
PWWfcR ==
    ctor = "ok" /\ ret.op = "none" /\
        \E ks \in ValidStates, g \in GridArgs, gamma \in BOOLEAN :
            \E norm \in (IF g = <<>> THEN BOOLEAN ELSE {FALSE}) :
                CallWfcR(ks[1], ks[2], ks[3], g, norm, gamma)

PWTDM ==
    ctor = "ok" /\ ret.op = "none" /\ \E ks_i \in ValidStates, ks_j \in ValidStates, norm \in BOOLEAN,
                      gamma \in BOOLEAN :
                      CallTDM(ks_i, ks_j, norm, gamma)

InitPW == InitOn(PlaneWaveFiles)

NextPW ==
    \/ Construct
    \/ Discard
    \/ PWWhereRec
    \/ PWReadBandCoeff
    \/ PWGvectors
    \/ PWWfcR
    \/ PWTDM

SpecPW == InitPW /\ [][NextPW]_vars

-----------------------------------------------------------------------------
(* Properties.  Shorthands over the outcome of the last call. *)

IsCall(op) == ret.op = op
StateOps == {"whereRec", "readBandCoeff", "wfc_r"}
InRange(ks) ==
    /\ 1 <= ks[1] /\ ks[1] <= obj.nspin
    /\ 1 <= ks[2] /\ ks[2] <= obj.nkpts
    /\ 1 <= ks[3] /\ ks[3] <= obj.nbands
Range(seq) == {seq[i] : i \in 1..Len(seq)}
Neg(g) == <<-g[1], -g[2], -g[3]>>
UnsupportedErrors ==
    {"VASP5 WAVECAR format, not implemented yet",
     "VASP5 WAVECAR format with double precision coefficients, not implemented yet"}

\* C1: after gvectors(ikpt, gamma) on a valid k-point, either the call returned
\* exactly _nplws[ikpt-1] triples, each with kinetic energy strictly below the
\* cutoff, or it failed with the plane-wave consistency error.
C1_GvectorsCount ==
    (IsCall("gvectors") /\ ret.args[1] \in 1..obj.nkpts) =>
        \/ ret.status = "No. of planewaves not consistent!"
        \/ /\ ret.status = "ok"
           /\ Len(ret.value) = obj.nplws[ret.args[1]]
           /\ \A n \in 1..Len(ret.value) :
                 KENERGY(obj.Acell, ret.value[n], obj.kvecs[ret.args[1]])
                     < obj.encut16 * CellDen(obj.Acell)

\* C1 witness: a full-grid call at a k-point off the origin returned more than
\* one G-vector.
C1_Witness ==
    /\ IsCall("gvectors") /\ ret.status = "ok" /\ ~ret.args[2]
    /\ Len(ret.value) > 1
    /\ obj.kvecs[ret.args[1]] = <<1, 0, 0>>

\* the rejection a state-indexed call owes to an index out of range: an index
\* error, raised with the cursor where it was
C2_Rejected(errors) == ret'.status \in errors /\ pos' = pos

\* C2 (as claimed): whereRec, readBandCoeff, wfc_r and TransitionDipoleMoment
\* fail with an index error whenever an index of a state is out of range, and
\* the cursor is unchanged by the rejected call.
C2_IndexErrorBeforeIO ==
    [][(ret.op = "none" /\ ret'.op # "none") =>
        /\ (ret'.op \in StateOps /\ ~InRange(ret'.args)) => C2_Rejected(IndexErrors)
        /\ (ret'.op = "TransitionDipoleMoment"
              /\ (~InRange(ret'.args[1]) \/ ~InRange(ret'.args[2])))
               => C2_Rejected(IndexErrors)]_vars

\* C2 (amended): as claimed, except that TransitionDipoleMoment called with
\* two different k-points fails with the k-point assertion of line 328, which
\* precedes the index checks; every rejection leaves the cursor unchanged.
C2_IndexOrKpointErrorBeforeIO ==
    [][(ret.op = "none" /\ ret'.op # "none") =>
        /\ (ret'.op \in StateOps /\ ~InRange(ret'.args)) => C2_Rejected(IndexErrors)
        /\ (ret'.op = "TransitionDipoleMoment"
              /\ (~InRange(ret'.args[1]) \/ ~InRange(ret'.args[2])))
               => IF ret'.args[1][2] # ret'.args[2][2]
                  THEN C2_Rejected({"k-point of the two states differ!"})
                  ELSE C2_Rejected(IndexErrors)]_vars

\* C2 witness: after a read moved the cursor off the end of the band tables,
\* TransitionDipoleMoment rejected a second state whose band is out of range.
C2_Witness ==
    /\ IsCall("TransitionDipoleMoment")
    /\ InRange(ret.args[1]) /\ ret.args[1][2] = ret.args[2][2]
    /\ ret.args[2][3] = obj.nbands + 1
    /\ ret.status = "Invalid band index!"
    /\ pos = CoeffOffset(obj, 1, 1, 1) + obj.nplws[1] * PrecSize(obj.WFPrec)

\* C3 (as claimed): TransitionDipoleMoment on two valid, different states of
\* one k-point with equal stored energies, whose G-vectors pass the count
\* check, fails with the degenerate-states error and returns no tuple.
C3_DegenerateStatesError ==
    (/\ IsCall("TransitionDipoleMoment")
     /\ InRange(ret.args[1]) /\ InRange(ret.args[2])
     /\ ret.args[1] # ret.args[2]
     /\ ret.args[1][2] = ret.args[2][2]
     /\ gvectors(obj, ret.args[1][2], ret.args[4]).status = "ok"
     /\ obj.bands[ret.args[1][1]][ret.args[1][2]][ret.args[1][3]]
          = obj.bands[ret.args[2][1]][ret.args[2][2]][ret.args[2][3]])
        => ret.status = "degenerate states"

\* C4 (as claimed): no state has construction failed with the handle open.
C4_HandleClosedOnFailure == (ctor \notin {"new", "ok"}) => wfc # "open"

\* C5: on a constructed object, as built and at every whereRec and
\* readBandCoeff call, for all valid (spin, kpoint, band): whereRec is
\* 2 + (spin-1)*nkpts*(nbands+1) + (kpoint-1)*(nbands+1) + band; the offsets
\* sought are record indices times the record length; the table record of a
\* block is followed by exactly nbands coefficient records, band b at b records
\* after the table; the offsets are pairwise distinct and none is the offset
\* of a header record or of a table; the file holds the block's table and the
\* state's coefficients there, and readBandCoeff returns those coefficients.
C5_RecordLayout ==
    (ctor = "ok" /\ ret.op \in {"none", "whereRec", "readBandCoeff"}) =>
        LET nk == obj.nkpts
            nb == obj.nbands
            recl == obj.recl
            V == (1..obj.nspin) \X (1..nk) \X (1..nb)
            co(v) == CoeffOffset(obj, v[1], v[2], v[3])
            to(v) == TableOffset(obj, v[1], v[2])
        IN  /\ \A v \in V :
                 /\ whereRec(obj, v[1], v[2], v[3])
                      = 2 + (v[1] - 1) * nk * (nb + 1) + (v[2] - 1) * (nb + 1) + v[3]
                 /\ co(v) = whereRec(obj, v[1], v[2], v[3]) * recl
                 /\ co(v) = to(v) + v[3] * recl
                 /\ co(v) \notin {0, recl} \cup {to(w) : w \in V}
                 /\ RecordAt(file, to(v))
                      = [kind |-> "table", ispin |-> v[1], ikpt |-> v[2]]
                 /\ RecordAt(file, co(v))
                      = [kind |-> "coeff", ispin |-> v[1], ikpt |-> v[2], iband |-> v[3]]
                 /\ RecordAt(file, to(v) + (nb + 1) * recl).kind \in {"table", "eof"}
            /\ \A v \in V, w \in V : v # w => co(v) # co(w)
            /\ (IsCall("whereRec") /\ ret.status = "ok") =>
                  ret.value * recl = co(ret.args)
            /\ (IsCall("readBandCoeff") /\ ret.status = "ok") =>
                  /\ ret.value.cg = file.cg[ret.args[1]][ret.args[2]][ret.args[3]]
                  /\ pos = co(ret.args) + obj.nplws[ret.args[2]] * PrecSize(obj.WFPrec)

\* C5 witness: readBandCoeff returned the last band of the last k-point of the
\* second spin, of a file with two k-points and two bands.
C5_Witness ==
    /\ IsCall("readBandCoeff") /\ ret.status = "ok"
    /\ obj.nkpts = 2 /\ obj.nbands = 2
    /\ <<ret.args[1], ret.args[2], ret.args[3]>> = <<2, 2, 2>>
    /\ pos > TableOffset(obj, 2, 2) + 2 * obj.recl

\* C6: once __init__ has run on a file that opens, with rtag the tag read:
\* 45200 selected complex64 and 45210 complex128; 53300 and 53310 failed with
\* a not-implemented (unsupported format) error and every other tag with the
\* invalid-tag error; a failing tag left the cursor behind the three fields of
\* record 1, selected no precision and set nothing of record 2 or the tables.
C6_PrecisionTag ==
    (ctor # "new" /\ file.exists) =>
        LET rtag == obj.rtag
            failedAt1 == /\ pos = 3 * FloatSize
                         /\ DOMAIN obj = {"recl", "nspin", "rtag"}
        IN  /\ rtag = ToInt(file.rtag2)
            /\ rtag = 45200 => ("WFPrec" \in DOMAIN obj /\ obj.WFPrec = "complex64")
            /\ rtag = 45210 => ("WFPrec" \in DOMAIN obj /\ obj.WFPrec = "complex128")
            /\ rtag \in {45200, 45210} => ctor \in {"ok", "IndexError"}
            /\ rtag \in {53300, 53310} => (ctor \in UnsupportedErrors /\ failedAt1)
            /\ rtag \notin {45200, 45210, 53300, 53310}
                 => (ctor = "Invalid TAG values" /\ failedAt1)

\* C6 witness: construction failed on tag 53300 with the cursor in record 1.
C6_Witness ==
    /\ ctor = "VASP5 WAVECAR format, not implemented yet"
    /\ obj.rtag = 53300 /\ pos = 3 * FloatSize /\ pos < obj.recl

\* the overlap of the coefficients the file stores for two states
C7_FileOverlap(ks_i, ks_j) ==
    LET a == file.cg[ks_i[1]][ks_i[2]][ks_i[3]]
        b == file.cg[ks_j[1]][ks_j[2]][ks_j[3]]
    IN  CSum([n \in 1..Len(a) |-> CMul(conjugate(a[n]), b[n])])

\* the scenario of C7: a returned result for state A = [1+0i] and state
\* B = [0+1i] over the single G-vector (0,0,0), with dE # 0
C7_Scenario ==
    /\ IsCall("TransitionDipoleMoment") /\ ret.status = "ok"
    /\ ret.value.dE # 0
    /\ file.cg[ret.args[1][1]][ret.args[1][2]][ret.args[1][3]] = <<COne>>
    /\ file.cg[ret.args[2][1]][ret.args[2][2]][ret.args[2][3]] = <<CI>>
    /\ Gvec(obj, ret.args[1][2], ret.args[4]) = <<(<<0, 0, 0>>)>>

\* what C7 holds of every returned result but the scenario's overlap: the
\* overlap is the sum of conj(coeffA_i) * coeffB_i, and in the scenario the
\* coefficients have unit norm and the dipole is the zero vector
C7_Common(scenarioOverlap) ==
    (IsCall("TransitionDipoleMoment") /\ ret.status = "ok") =>
        /\ ret.value.ovlap.num = C7_FileOverlap(ret.args[1], ret.args[2])
        /\ C7_Scenario =>
              /\ ret.value.ovlap.num = scenarioOverlap
              /\ ret.value.ovlap.den2 = <<1, 1>>
              /\ ret.value.tdm.num = <<CZero, CZero, CZero>>

\* C7 (as claimed): the overlap is the sum over plane waves of
\* conj(coeffA_i) * coeffB_i, and in the scenario it equals -i and the dipole
\* is the zero vector, in gamma and non-gamma mode.
C7_OverlapMinusI == C7_Common(<<0, -1>>)

\* C7 (amended): the same with the scenario's overlap equal to +i, which is
\* conj(1) * i.
C7_OverlapPlusI == C7_Common(<<0, 1>>)

\* C7 witness: the scenario, in gamma mode.
C7_Witness == C7_Scenario /\ ret.args[4]

\* C8 (as claimed): in gamma mode of wfc_r, after the fill loop, every z=0
\* point whose frequencies (fx, fy) pass the half-space filter holds what was
\* placed there, every other z=0 point holds the conjugate of the value at its
\* point reflection, and so the plane is Hermitian-symmetric (stated off the
\* DC point, whose value is whatever the file stores).
C8_GammaPlaneHermitian ==
    (IsCall("wfc_r") /\ ret.status = "ok" /\ ret.args[6]) =>
        LET n == ret.value.ngrid
            P == ret.value.placed
            F == ret.value.filled
            refl(ii, jj) == <<(-ii) % n[1], (-jj) % n[2], 0>>
            keep(ii, jj) == \/ Freq(n[2], jj) > 0
                            \/ (Freq(n[2], jj) = 0 /\ Freq(n[1], ii) >= 0)
        IN  \A ii \in 0..(n[1] - 1), jj \in 0..(n[2] - 1) :
               /\ keep(ii, jj) => F[<<ii, jj, 0>>] = P[<<ii, jj, 0>>]
               /\ ~keep(ii, jj) => F[<<ii, jj, 0>>] = conjugate(F[refl(ii, jj)])
               /\ <<ii, jj>> # <<0, 0>> => F[<<ii, jj, 0>>] = conjugate(F[refl(ii, jj)])

\* C9: at every gvectors call, with the minimum grid n = 2c+1 per axis: the
\* centered frequencies of each axis are exactly -c..c and the candidates are
\* every triple of them, each once; the half-space filter selects the origin
\* and, of every other candidate G, exactly one of G and -G, so the gamma
\* candidates number (nx*ny*nz + 1)/2; and at a k-point with k = 0 the gamma
\* G-vectors together with their negations are the full-mode G-vectors.
C9_GammaHalfPartition ==
    IsCall("gvectors") =>
        LET n == obj.ngrid
            c == [i \in 1..3 |-> (n[i] - 1) \div 2]
            F == Range(kgrid(n, FALSE))
            H == Range(kgrid(n, TRUE))
            size == n[1] * n[2] * n[3]
        IN  /\ \A i \in 1..3 :
                 /\ n[i] = 2 * c[i] + 1
                 /\ {Freq(n[i], j) : j \in 0..(n[i] - 1)} = (-c[i])..c[i]
            /\ Len(kgrid(n, FALSE)) = size /\ Cardinality(F) = size
            /\ F = ((-c[1])..c[1]) \X ((-c[2])..c[2]) \X ((-c[3])..c[3])
            /\ <<0, 0, 0>> \in H /\ H \subseteq F
            /\ \A g \in F \ {<<0, 0, 0>>} : (g \in H) # (Neg(g) \in H)
            /\ 2 * Len(kgrid(n, TRUE)) = size + 1
            /\ Cardinality(H) = Len(kgrid(n, TRUE))
            /\ \A k \in 1..obj.nkpts :
                  obj.kvecs[k] = <<0, 0, 0>> =>
                     LET GH == Range(Gvec(obj, k, TRUE))
                     IN  GH \cup {Neg(g) : g \in GH} = Range(Gvec(obj, k, FALSE))
            /\ (ret.status = "ok" /\ ret.args[1] \in 1..obj.nkpts) =>
                  ret.value = Gvec(obj, ret.args[1], ret.args[2])

\* C9 witness: a gamma-version call on a 3x3x3 minimum grid at k = 0 returned
\* more than one G-vector.
C9_Witness ==
    /\ IsCall("gvectors") /\ ret.status = "ok" /\ ret.args[2]
    /\ obj.ngrid = <<3, 3, 3>> /\ obj.kvecs[ret.args[1]] = <<0, 0, 0>>
    /\ Len(ret.value) > 1

\* C10: wfc_r rejects a supplied grid that is not component-wise >= the
\* minimum grid; for every accepted grid on which gvectors succeeds the call
\* succeeds, the buffer has ngrid[2]/2 + 1 entries on its last axis in gamma
\* mode and ngrid[2] otherwise, the G-vectors reduced modulo the grid are
\* pairwise distinct cells inside the buffer, each cell holds its own
\* coefficient after the placement and every other cell holds zero.
C10_PlacementInBounds ==
    (IsCall("wfc_r") /\ InRange(ret.args)) =>
        LET a == ret.args
            ngrid == IF a[4] = <<>> THEN obj.ngrid ELSE a[4]
            gamma == a[6]
            gv == gvectors(obj, a[2], gamma)
            accepted == \A i \in 1..3 : ngrid[i] >= obj.ngrid[i]
            shape == <<ngrid[1], ngrid[2],
                       IF gamma THEN ngrid[3] \div 2 + 1 ELSE ngrid[3]>>
            cell(m) == <<gv.value[m][1] % ngrid[1], gv.value[m][2] % ngrid[2],
                         gv.value[m][3] % ngrid[3]>>
            N == 1..Len(gv.value)
        IN  /\ ~accepted => ret.status = "Minium FT grid size"
            /\ (accepted /\ gv.status = "ok") =>
                  /\ ret.status = "ok"
                  /\ ret.value.shape = shape
                  /\ DOMAIN ret.value.placed = Cells(shape)
                  /\ \A m \in N : \A i \in 1..3 : 0 <= cell(m)[i] /\ cell(m)[i] < shape[i]
                  /\ \A m \in N, l \in N : m # l => cell(m) # cell(l)
                  /\ \A m \in N : ret.value.placed[cell(m)] = file.cg[a[1]][a[2]][a[3]][m]
                  /\ \A x \in Cells(shape) :
                        x \notin {cell(m) : m \in N} => ret.value.placed[x] = CZero

\* C10 witness: a gamma-mode call on the larger grid (4, 3, 4) of a 3x3x3
\* minimum grid placed more than one coefficient.
C10_Witness ==
    /\ IsCall("wfc_r") /\ ret.status = "ok" /\ ret.args[6]
    /\ obj.ngrid = <<3, 3, 3>> /\ ret.value.ngrid = <<4, 3, 4>>
    /\ obj.nplws[ret.args[2]] > 1

=============================================================================
